---------------------------- MODULE Spec2Model ----------------------------
(***************************************************************************)
(* Account-management HTTP service (signup, get profile, update profile,   *)
(* close) behind per-request Basic authentication.                         *)
(*                                                                         *)
(* The repository holds two builds of the same service:                    *)
(*   src/index.js          the user list lives in the process (let users)  *)
(*                         and auth() first calls ensureTestUser();        *)
(*   src/unnamed/part_000  the user list lives in ./users.json and every   *)
(*                         handler reads it (readUsers) and writes it back *)
(*                         (writeUsers).                                   *)
(* The variable impl says which build is running ("mem" or "file"); the    *)
(* variable users is the store of that build.  Every handler is            *)
(* synchronous JavaScript, so one request is one atomic step.              *)
(*                                                                         *)
(* Strings are sequences of character codes, so that length checks and the *)
(* character-class patterns are computed as the code computes them.  A     *)
(* JSON object is a function from the keys it carries to their values: a   *)
(* key the object lacks reads as undefined.                                *)
(***************************************************************************)
EXTENDS Integers, Sequences, FiniteSets, TLC

VARIABLES
    impl,     \* which build is running: "mem" (index.js) or "file" (part_000)
    users,    \* the store: index.js `users`, or the array in ./users.json
    req,      \* the request just handled (op "none": none, the server waits)
    res,      \* the response to it: [status, body]
    before,   \* users and closed as they were when that request arrived
    closed    \* the <<id, pw>> whose /close succeeded, until id signs up again

vars == <<impl, users, req, res, before, closed>>

---------------------------------------------------------------------------
(* Strings *)

Rep(c, n) == [i \in 1..n |-> c]

\* "TaroYamada"
TaroYamada == <<84, 97, 114, 111, 89, 97, 109, 97, 100, 97>>
\* "PASSwd4TY"
PASSwd4TY == <<80, 65, 83, 83, 119, 100, 52, 84, 89>>

\* ":" (0x3A)
Colon == 58

Truthy(s) == Len(s) > 0

\* JSON objects
EmptyObj == <<>>
Has(obj, k) == k \in DOMAIN obj
Field(k, v) == k :> v

---------------------------------------------------------------------------
(* Responses *)

Respond(status, body) == [status |-> status, body |-> body]

Message(status, message) == Respond(status, [message |-> message])

Failure(status, message, cause) ==
    Respond(status, [message |-> message, cause |-> cause])

---------------------------------------------------------------------------
(* Array helpers *)

\* the elements of array us
Records(us) == {us[i] : i \in 1..Len(us)}

\* Array.prototype.findIndex, 1-based, the callback given as the set of the
\* elements it accepts; 0 when us holds none of them (Array.prototype.find is
\* then undefined).
findIndex(us, accepted) ==
    IF \E i \in 1..Len(us) : us[i] \in accepted
    THEN CHOOSE i \in 1..Len(us) :
            us[i] \in accepted /\ \A j \in 1..(i - 1) : us[j] \notin accepted
    ELSE 0

\* a faulty variant: the test inverted, as with === for !==
filterInverted(us, accepted) ==
    LET Drop(u) == u \notin accepted
    IN  SelectSeq(us, Drop)

\* Array.prototype.filter, the callback given as the set of the elements it
\* accepts
filter(us, accepted) ==
    LET Keep(u) == u \in accepted
    IN  SelectSeq(us, Keep)

---------------------------------------------------------------------------
(* The Authorization header.                                               *)
(*   kind "none"   : the request carries no Authorization header           *)
(*   kind "strict" : "Basic <base64>", well formed: basic-auth accepts it  *)
(*   kind "loose"  : starts with "Basic " but basic-auth's pattern rejects *)
(*                   it (for instance blanks inside the payload); Buffer's *)
(*                   lenient base64 decoder still yields `decoded`         *)
(* decoded is the text the base64 payload decodes to.                      *)

Header(kind, decoded) == [kind |-> kind, decoded |-> decoded]

NoHeader == Header("none", <<>>)

\* index of the first ":" of s, 0 when s has none
FirstColon(s) ==
    IF \E i \in 1..Len(s) : s[i] = Colon
    THEN CHOOSE i \in 1..Len(s) :
            s[i] = Colon /\ \A j \in 1..(i - 1) : s[j] # Colon
    ELSE 0

\* String.prototype.split(":")
RECURSIVE split(_)
split(s) ==
    LET i == FirstColon(s)
    IN  IF i = 0 THEN <<s>>
        ELSE <<SubSeq(s, 1, i - 1)>> \o split(SubSeq(s, i + 1, Len(s)))

\* null / undefined credentials
NoCredentials == EmptyObj

IsNull(c) == DOMAIN c = {}

\* The basic-auth package: the header must match its pattern and the decoded
\* text must match ^([^:]*):(.*)$, name before the first colon, pass after it.
basicAuth(hdr) ==
    IF hdr.kind = "strict" /\ FirstColon(hdr.decoded) > 0
    THEN LET i == FirstColon(hdr.decoded)
         IN  [name |-> SubSeq(hdr.decoded, 1, i - 1),
              pass |-> SubSeq(hdr.decoded, i + 1, Len(hdr.decoded))]
    ELSE NoCredentials

\* u.user_id === credentials.name && u.password === credentials.pass
\* (an undefined pass equals no stored password)
Matches(u, credentials) ==
    /\ u.user_id = credentials.name
    /\ Has(credentials, "pass")
    /\ u.password = credentials.pass

---------------------------------------------------------------------------
(* src/index.js *)

TestUser ==
    [user_id |-> TaroYamada, password |-> PASSwd4TY,
     nickname |-> TaroYamada, comment |-> <<>>]

\* a faulty variant: the test user is pushed whether or not the store holds it
ensureTestUserAlways(us) == Append(us, TestUser)

ensureTestUser(us) ==
    LET taro == {u \in Records(us) : u.user_id = TaroYamada}
    IN  IF findIndex(us, taro) = 0 THEN Append(us, TestUser) ELSE us

getAuthCredentials(hdr) ==
    LET credentials == basicAuth(hdr)
    IN  IF ~IsNull(credentials) THEN credentials
        ELSE IF hdr.kind \in {"strict", "loose"}
        THEN LET parts == split(hdr.decoded)
             IN  IF Len(parts) >= 2
                 THEN [name |-> parts[1], pass |-> parts[2]]
                 ELSE [name |-> parts[1]]
        ELSE credentials

\* auth(req): the store after ensureTestUser, and the index in it of the
\* user the credentials resolve to (0: null)
auth(us, hdr) ==
    LET us1 == ensureTestUser(us)
        credentials == getAuthCredentials(hdr)
        hit == {u \in Records(us1) : Matches(u, credentials)}
    IN  [users |-> us1,
         user  |-> IF IsNull(credentials) THEN 0 ELSE findIndex(us1, hit)]

Result(us, response) == [users |-> us, res |-> response]

\* !v for a body field: undefined or the empty string
Falsy(body, k) == ~Has(body, k) \/ ~Truthy(body[k])

\* /^[A-Za-z0-9]+$/
idPattern(s) ==
    /\ Len(s) > 0
    /\ \A i \in 1..Len(s) : s[i] \in (48..57) \cup (65..90) \cup (97..122)

\* /^[\x21-\x7E]+$/
pwPattern(s) ==
    /\ Len(s) > 0
    /\ \A i \in 1..Len(s) : s[i] \in 33..126

(* The checks below read the same in both builds (index.js 54-81, 151-172; *)
(* part_000 57-89, 177-200), so the handlers of both use them.             *)

\* !user_id || !password
RequiredMissing(body) == Falsy(body, "user_id") \/ Falsy(body, "password")

\* a faulty variant: the lower limits compared with <= for <
LengthIncorrectOffByOne(user_id, password) ==
    \/ Len(user_id) <= 6
    \/ Len(user_id) > 20
    \/ Len(password) <= 8
    \/ Len(password) > 20

LengthIncorrect(user_id, password) ==
    \/ Len(user_id) < 6
    \/ Len(user_id) > 20
    \/ Len(password) < 8
    \/ Len(password) > 20

PatternIncorrect(user_id, password) ==
    ~idPattern(user_id) \/ ~pwPattern(password)

\* a faulty variant: only user_id is looked at
NotUpdatableUserIdOnly(body) == ~Falsy(body, "user_id")

\* user_id || password
NotUpdatable(body) == ~Falsy(body, "user_id") \/ ~Falsy(body, "password")

\* nickname === undefined && comment === undefined
NothingToUpdate(body) == ~Has(body, "nickname") /\ ~Has(body, "comment")

LimitExceeded(body) ==
    \/ (~Falsy(body, "nickname") /\ Len(body["nickname"]) > 30)
    \/ (~Falsy(body, "comment") /\ Len(body["comment"]) > 100)

\* app.post("/signup")
postSignup(us, body) ==
    IF RequiredMissing(body)
    THEN Result(us, Failure(400, "Account creation failed",
                            "Required user_id and password"))
    ELSE
    LET user_id == body["user_id"]
        password == body["password"]
        sameId == {u \in Records(us) : u.user_id = user_id}
    IN  IF LengthIncorrect(user_id, password)
        THEN Result(us, Failure(400, "Account creation failed",
                                "Input Length is incorrect"))
        ELSE IF PatternIncorrect(user_id, password)
        THEN Result(us, Failure(400, "Account creation failed",
                                "Incorrect character pattern"))
        ELSE IF findIndex(us, sameId) # 0
        THEN Result(us, Failure(400, "Account creation failed",
                                "Already same user_id is used"))
        ELSE Result(
                Append(us, [user_id |-> user_id, password |-> password,
                            nickname |-> user_id, comment |-> <<>>]),
                Respond(200, [message |-> "Account successfully created",
                              user |-> [user_id |-> user_id,
                                        nickname |-> user_id]]))

\* app.get("/users/:user_id")
getUsers(us, hdr, targetId) ==
    LET a == auth(us, hdr)
        isTarget == {u \in Records(a.users) : u.user_id = targetId}
        i == findIndex(a.users, isTarget)
        user == a.users[i]
    IN  IF a.user = 0
        THEN Result(a.users, Message(401, "Authentication failed"))
        ELSE IF i = 0
        THEN Result(a.users, Message(404, "No user found"))
        ELSE Result(
                a.users,
                Respond(200,
                    [message |-> "User details by user_id",
                     user |-> IF Truthy(user.comment)
                              THEN [user_id |-> user.user_id,
                                    nickname |-> user.nickname,
                                    comment |-> user.comment]
                              ELSE [user_id |-> user.user_id,
                                    nickname |-> user.nickname]]))

\* a faulty variant: the value is stored as given
OrElseNothing(v, default) == v

\* nickname || targetId, comment || ""
OrElse(v, default) == IF Truthy(v) THEN v ELSE default

\* app.patch("/users/:user_id")
patchUsers(us, hdr, targetId, body) ==
    LET a == auth(us, hdr)
        isTarget == {u \in Records(a.users) : u.user_id = targetId}
        i == findIndex(a.users, isTarget)
        user == a.users[i]
        updated ==
            [user EXCEPT
                !.nickname = IF Has(body, "nickname")
                             THEN OrElse(body["nickname"], targetId) ELSE @,
                !.comment = IF Has(body, "comment")
                            THEN OrElse(body["comment"], <<>>) ELSE @]
    IN  IF a.user = 0
        THEN Result(a.users, Message(401, "Authentication failed"))
        ELSE IF a.users[a.user].user_id # targetId
        THEN Result(a.users, Message(403, "No permission for update"))
        ELSE IF i = 0
        THEN Result(a.users, Message(404, "No user found"))
        ELSE IF NotUpdatable(body)
        THEN Result(a.users, Failure(400, "User updation failed",
                                     "Not updatable user_id and password"))
        ELSE IF NothingToUpdate(body)
        THEN Result(a.users, Failure(400, "User updation failed",
                                     "Required nickname or comment"))
        ELSE IF LimitExceeded(body)
        THEN Result(a.users, Failure(400, "User updation failed",
                "String length limit exceeded or containing invalid characters"))
        ELSE Result(
                [a.users EXCEPT ![i] = updated],
                Respond(200, [message |-> "User successfully updated",
                              user |-> [user_id |-> updated.user_id,
                                        nickname |-> updated.nickname,
                                        comment |-> updated.comment]]))

\* app.post("/close")
postClose(us, hdr) ==
    LET a == auth(us, hdr)
        others ==
            {u \in Records(a.users) : u.user_id # a.users[a.user].user_id}
    IN  IF a.user = 0
        THEN Result(a.users, Message(401, "Authentication failed"))
        ELSE Result(filter(a.users, others),
                    Message(200, "Account and user successfully removed"))

---------------------------------------------------------------------------
(* src/unnamed/part_000: the store is the array kept in ./users.json.      *)
(* The model keeps the array that file encodes: JSON.stringify followed by *)
(* JSON.parse gives back an array of objects of string fields unchanged.   *)

readUsers(file) == file

writeUsers(data) == data

\* auth(req): the index in the store of the user the credentials resolve
\* to (0: null); reads the store, never writes it
authFile(file, hdr) ==
    LET credentials == basicAuth(hdr)
        us == readUsers(file)
        hit == {u \in Records(us) : Matches(u, credentials)}
    IN  IF IsNull(credentials) THEN 0 ELSE findIndex(us, hit)

\* app.post("/signup")
postSignupFile(file, body) ==
    LET us == readUsers(file)
    IN
    IF RequiredMissing(body)
    THEN Result(file, Failure(400, "Account creation failed",
                              "Required user_id and password"))
    ELSE
    LET user_id == body["user_id"]
        password == body["password"]
        sameId == {u \in Records(us) : u.user_id = user_id}
    IN  IF LengthIncorrect(user_id, password)
        THEN Result(file, Failure(400, "Account creation failed",
                                  "Input Length is incorrect"))
        ELSE IF PatternIncorrect(user_id, password)
        THEN Result(file, Failure(400, "Account creation failed",
                                  "Incorrect character pattern"))
        ELSE IF findIndex(us, sameId) # 0
        THEN Result(file, Failure(400, "Account creation failed",
                                  "Already same user_id is used"))
        ELSE Result(
                writeUsers(Append(us, [user_id |-> user_id,
                                       password |-> password,
                                       nickname |-> user_id,
                                       comment |-> <<>>])),
                Respond(200, [message |-> "Account successfully created",
                              user |-> [user_id |-> user_id,
                                        nickname |-> user_id]]))

\* app.get("/users/:user_id")
getUsersFile(file, hdr, targetId) ==
    LET authedUser == authFile(file, hdr)
        us == readUsers(file)
        isTarget == {u \in Records(us) : u.user_id = targetId}
        i == findIndex(us, isTarget)
        user == us[i]
        nickname == OrElse(user.nickname, user.user_id)
        comment == OrElse(user.comment, <<>>)
    IN  IF authedUser = 0
        THEN Result(file, Message(401, "Authentication failed"))
        ELSE IF i = 0
        THEN Result(file, Message(404, "No user found"))
        ELSE Result(
                file,
                Respond(200,
                    [message |-> "User details by user_id",
                     user |-> IF Truthy(comment)
                              THEN [user_id |-> user.user_id,
                                    nickname |-> nickname,
                                    comment |-> comment]
                              ELSE [user_id |-> user.user_id,
                                    nickname |-> nickname]]))

\* a faulty variant: the value is stored as given
IfEmptyNothing(v, default) == v

\* nickname === "" ? targetId : nickname, comment === "" ? "" : comment
IfEmpty(v, default) == IF v = <<>> THEN default ELSE v

\* app.patch("/users/:user_id")
patchUsersFile(file, hdr, targetId, body) ==
    LET authedUser == authFile(file, hdr)
        us == readUsers(file)
        isTarget == {u \in Records(us) : u.user_id = targetId}
        userIndex == findIndex(us, isTarget)
        updated ==
            [us[userIndex] EXCEPT
                !.nickname = IF Has(body, "nickname")
                             THEN IfEmpty(body["nickname"], targetId) ELSE @,
                !.comment = IF Has(body, "comment")
                            THEN IfEmpty(body["comment"], <<>>) ELSE @]
    IN  IF authedUser = 0
        THEN Result(file, Message(401, "Authentication failed"))
        ELSE IF readUsers(file)[authedUser].user_id # targetId
        THEN Result(file, Message(403, "No permission for update"))
        ELSE IF userIndex = 0
        THEN Result(file, Message(404, "No user found"))
        ELSE IF NotUpdatable(body)
        THEN Result(file, Failure(400, "User updation failed",
                                  "Not updatable user_id and password"))
        ELSE IF NothingToUpdate(body)
        THEN Result(file, Failure(400, "User updation failed",
                                  "Required nickname or comment"))
        ELSE IF LimitExceeded(body)
        THEN Result(file, Failure(400, "User updation failed",
                "String length limit exceeded or containing invalid characters"))
        ELSE Result(
                writeUsers([us EXCEPT ![userIndex] = updated]),
                Respond(200, [message |-> "User successfully updated",
                              user |-> [user_id |-> updated.user_id,
                                        nickname |-> updated.nickname,
                                        comment |-> updated.comment]]))

\* app.post("/close")
postCloseFile(file, hdr) ==
    LET authedUser == authFile(file, hdr)
        us == readUsers(file)
        others ==
            {u \in Records(us) :
                u.user_id # readUsers(file)[authedUser].user_id}
    IN  IF authedUser = 0
        THEN Result(file, Message(401, "Authentication failed"))
        ELSE Result(writeUsers(filter(us, others)),
                    Message(200, "Account and user successfully removed"))

---------------------------------------------------------------------------
(* Requests the model sends *)

\* "user02": an id of the shortest length signup accepts
User02 == <<117, 115, 101, 114, 48, 50>>
\* "user0": too short to ever sign up, so never in the store
UnknownId == <<117, 115, 101, 114, 48>>
\* "user_2": right length, one character outside [A-Za-z0-9]
BadId == <<117, 115, 101, 114, 95, 50>>
\* "Pass!wd8": a password of the shortest length signup accepts, with a "!"
PassWd8 == <<80, 97, 115, 115, 33, 119, 100, 56>>
\* "Pass wd8": right length, with a space (0x20)
SpacedPw == <<80, 97, 115, 115, 32, 119, 100, 56>>

UserIds == {TaroYamada, User02}
Passwords == {PASSwd4TY, PassWd8}
Targets == UserIds \cup {UnknownId}

\* the JSON objects that carry key k with a value of vals, or lack it
Opt(k, vals) == {EmptyObj} \cup {Field(k, v) : v \in vals}

\* the objects made of one object of A and one of B
Both(A, B) == {a @@ b : a \in A, b \in B}

\* The nicknames updates send besides "": the NumNicknames longest an update
\* accepts (30 characters, then 29, ...), and one of 31 characters.
NumNicknames == 1

Nick30 == Rep(110, 30)
Nick31 == Rep(110, 31)
Nicknames == {Rep(110, 31 - k) : k \in 1..NumNicknames}

\* the longest comment an update accepts, and the next longer
Comment100 == Rep(99, 100)
Comment101 == Rep(99, 101)

SignupIds == {<<>>, UnknownId, User02, TaroYamada, Rep(97, 21), BadId}
SignupPws == {<<>>, Rep(112, 7), PassWd8, PASSwd4TY, Rep(112, 21), SpacedPw}

SignupBodies == Both(Opt("user_id", SignupIds), Opt("password", SignupPws))

\* the same with an id and a password of the greatest length signup accepts
BoundaryBodies ==
    Both(Opt("user_id", SignupIds \cup {Rep(97, 20)}),
         Opt("password", SignupPws \cup {Rep(112, 20)}))

\* every way of giving or omitting nickname and comment
ProfileBodies ==
    Both(Opt("nickname", {<<>>, Nick31} \cup Nicknames),
         Opt("comment", {<<>>, Comment100, Comment101}))

\* bodies that carry user_id or password, alone or beside valid new values
ImmutableBodies ==
    Both({Field("user_id", <<>>), Field("user_id", User02),
          Field("password", PassWd8)},
         Both(Opt("nickname", {Nick30}), Opt("comment", {Comment100})))

PatchBodies == ProfileBodies \cup ImmutableBodies

\* the few bodies sent with headers other than "Basic id:pw"
ProbeBodies ==
    {EmptyObj, Field("nickname", Nick30),
     Field("password", PassWd8) @@ Field("comment", Comment100)}

Basic(id, pw) == Header("strict", id \o <<Colon>> \o pw)

BasicHeaders == {Basic(id, pw) : id \in UserIds, pw \in Passwords}

Headers ==
    {NoHeader}
        \cup BasicHeaders
        \cup {Header("strict", TaroYamada)}
        \cup {Header("loose",
                     TaroYamada \o <<Colon>> \o PASSwd4TY \o <<Colon, 120>>)}

Request(op, hdr, target, body) ==
    [op |-> op, hdr |-> hdr, target |-> target, body |-> body]

NoRequest == Request("none", NoHeader, <<>>, EmptyObj)
NoResponse == Message(0, "")

---------------------------------------------------------------------------
(* The state machine *)

\* index.js starts from `let users = []`; part_000 is taken to start from a
\* users.json that holds the empty array.
Init ==
    /\ impl \in {"mem", "file"}
    /\ users = <<>>
    /\ req = NoRequest
    /\ res = NoResponse
    /\ before = [users |-> <<>>, closed |-> {}]
    /\ closed = {}

\* One request handled: r the request, out the handler's Result.
Handled(r, out) ==
    /\ req = NoRequest
    /\ users' = out.users
    /\ res' = out.res
    /\ req' = r
    /\ before' = [users |-> users, closed |-> closed]
    /\ closed' =
        IF r.op = "close" /\ out.res.status = 200
        THEN LET c == getAuthCredentials(r.hdr)
             IN  closed \cup {<<c.name, c.pass>>}
        ELSE IF r.op = "signup" /\ out.res.status = 200
        THEN {p \in closed : p[1] # r.body["user_id"]}
        ELSE closed
    /\ UNCHANGED impl

SignupOf(bodies) ==
    /\ req.op = "none"
    /\ \E body \in bodies :
        Handled(Request("signup", NoHeader, <<>>, body),
                IF impl = "mem" THEN postSignup(users, body)
                ELSE postSignupFile(users, body))

Signup == impl = "mem" /\ SignupOf(SignupBodies)

GetProfile ==
    /\ impl = "mem"
    /\ req.op = "none"
    /\ \E hdr \in Headers, target \in Targets :
        Handled(Request("get", hdr, target, EmptyObj),
                getUsers(users, hdr, target))

UpdateProfile ==
    /\ impl = "mem"
    /\ req.op = "none"
    /\ \E hdr \in Headers, target \in Targets, body \in PatchBodies :
        /\ hdr \in BasicHeaders \/ body \in ProbeBodies
        /\ Handled(Request("patch", hdr, target, body),
                   patchUsers(users, hdr, target, body))

Close ==
    /\ impl = "mem"
    /\ req.op = "none"
    /\ \E hdr \in Headers :
        Handled(Request("close", hdr, <<>>, EmptyObj), postClose(users, hdr))

SignupFile == impl = "file" /\ SignupOf(SignupBodies)

GetProfileFile ==
    /\ impl = "file"
    /\ req.op = "none"
    /\ \E hdr \in Headers, target \in Targets :
        Handled(Request("get", hdr, target, EmptyObj),
                getUsersFile(users, hdr, target))

UpdateProfileFile ==
    /\ impl = "file"
    /\ req.op = "none"
    /\ \E hdr \in Headers, target \in Targets, body \in PatchBodies :
        /\ hdr \in BasicHeaders \/ body \in ProbeBodies
        /\ Handled(Request("patch", hdr, target, body),
                   patchUsersFile(users, hdr, target, body))

CloseFile ==
    /\ impl = "file"
    /\ req.op = "none"
    /\ \E hdr \in Headers :
        Handled(Request("close", hdr, <<>>, EmptyObj),
                postCloseFile(users, hdr))

\* The response is sent: Express drops the request and response objects,
\* and the server waits for the next request.
Reply ==
    /\ req.op # "none"
    /\ req' = NoRequest
    /\ res' = NoResponse
    /\ before' = [users |-> users, closed |-> closed]
    /\ UNCHANGED <<impl, users, closed>>

\* Signup again, with ids and passwords of the greatest accepted length too.
SignupBoundary == impl = "mem" /\ SignupOf(BoundaryBodies)

SignupBoundaryFile == impl = "file" /\ SignupOf(BoundaryBodies)

Next ==
    \/ Signup
    \/ GetProfile
    \/ UpdateProfile
    \/ Close
    \/ SignupFile
    \/ GetProfileFile
    \/ UpdateProfileFile
    \/ CloseFile
    \/ Reply

Spec == Init /\ [][Next]_vars

\* Signup alone, over the wider set of bodies.
NextSignup ==
    \/ SignupBoundary
    \/ SignupBoundaryFile
    \/ Reply

SpecSignup == Init /\ [][NextSignup]_vars

---------------------------------------------------------------------------
(* Properties *)

IdsOf(us) == {us[i].user_id : i \in 1..Len(us)}

\* the record of id in us (us holds one)
RecordOf(us, id) == CHOOSE u \in Records(us) : u.user_id = id

Done == req.op # "none"

Protected == req.op \in {"get", "patch", "close"}

\* the user name the request's header carries: the text before the first ":"
CallerName ==
    LET i == FirstColon(req.hdr.decoded)
    IN  IF i = 0 THEN req.hdr.decoded ELSE SubSeq(req.hdr.decoded, 1, i - 1)

\* the handler found a user for the request's credentials
Authenticated == Protected /\ res.status # 401

\* C1: once POST /close has succeeded for credentials (id, pw), and until id
\* signs up again, every request to a protected endpoint that carries
\* Basic id:pw is answered 401.
C1_ClosedCredentialsRejected ==
    (Protected /\ \E p \in before.closed : req.hdr = Basic(p[1], p[2]))
        => res.status = 401

\* C2: no two records of the store have the same user_id.
C2_UniqueUserIds ==
    \A i, j \in 1..Len(users) :
        users[i].user_id = users[j].user_id => i = j

\* a signup of an id the store holds, under another password, was refused,
\* with both ids in the store
C2_Witness ==
    /\ req.op = "signup"
    /\ res.status = 400
    /\ res.body.cause = "Already same user_id is used"
    /\ Len(users) = 2
    /\ RecordOf(users, req.body["user_id"]).password # req.body["password"]

\* C3: authentication never changes the store: a GET /users/{id} request, and
\* any request answered 401, leaves the store exactly as it was.
C3_AuthReadOnly ==
    (Done /\ (req.op = "get" \/ res.status = 401)) => users = before.users

\* C4: no stored nickname is the empty string; signup stores nickname = user_id
\* and comment = ""; an accepted update that carries nickname "" stores the
\* user_id as nickname.
C4_NicknameNeverEmpty ==
    /\ \A i \in 1..Len(users) : users[i].nickname # <<>>
    /\ (req.op = "signup" /\ res.status = 200) =>
            /\ users[Len(users)].user_id = req.body["user_id"]
            /\ users[Len(users)].nickname = req.body["user_id"]
            /\ users[Len(users)].comment = <<>>
    /\ (/\ req.op = "patch"
        /\ res.status = 200
        /\ Has(req.body, "nickname")
        /\ req.body["nickname"] = <<>>) =>
            RecordOf(users, req.target).nickname = req.target

\* an update with nickname "" was accepted for a user whose nickname was not
\* the user_id
C4_Witness ==
    /\ req.op = "patch"
    /\ res.status = 200
    /\ Has(req.body, "nickname")
    /\ req.body["nickname"] = <<>>
    /\ req.target \in IdsOf(before.users)
    /\ RecordOf(before.users, req.target).nickname = Nick30
    /\ RecordOf(users, req.target).nickname = req.target

C6_ForbiddenUpdate ==
    (req.op = "patch" /\ Authenticated /\ CallerName # req.target)
        => (res.status = 403 /\ users = before.users)

\* C7: an authenticated update of the caller's own profile whose body carries
\* a non-empty user_id or password is answered 400 "Not updatable user_id and
\* password", whatever nickname and comment the body also carries, and the
\* caller's stored record stays as it was.
C7_ImmutableFieldsRejected ==
    (/\ req.op = "patch"
     /\ Authenticated
     /\ CallerName = req.target
     /\ \E k \in {"user_id", "password"} :
            Has(req.body, k) /\ req.body[k] # <<>>) =>
        /\ res.status = 400
        /\ res.body.cause = "Not updatable user_id and password"
        /\ \A u \in Records(before.users) :
              u.user_id = req.target => u \in Records(users)

\* such an update, carrying a password beside a valid nickname and comment,
\* was refused and the caller's other nickname is still stored
C7_Witness ==
    /\ req.op = "patch"
    /\ res.status = 400
    /\ Has(req.body, "password")
    /\ Has(req.body, "nickname")
    /\ Has(req.body, "comment")
    /\ req.body["nickname"] = Nick30
    /\ req.target \in IdsOf(users)
    /\ RecordOf(users, req.target).nickname = req.target
    /\ res.body.cause = "Not updatable user_id and password"

\* C8: an accepted update is the caller's own and treats nickname and comment
\* each on its own: present and empty, the field is reset (nickname to the
\* user_id, comment to ""); present and not empty (at most 30 / 100 long), it
\* replaces the stored value; absent, the stored value stays.  The response
\* carries the stored user_id, nickname and comment.
C8_UpdateApplied ==
    (req.op = "patch" /\ res.status = 200) =>
        LET new == RecordOf(users, req.target)
            old == RecordOf(before.users, req.target)
            b == req.body
        IN  /\ CallerName = req.target
            /\ req.target \in IdsOf(users)
            /\ Has(b, "nickname") =>
                  /\ Len(b["nickname"]) <= 30
                  /\ new.nickname =
                        IF b["nickname"] = <<>> THEN req.target
                        ELSE b["nickname"]
            /\ Has(b, "comment") =>
                  /\ Len(b["comment"]) <= 100
                  /\ new.comment = b["comment"]
            /\ (~Has(b, "nickname") /\ req.target \in IdsOf(before.users)) =>
                  new.nickname = old.nickname
            /\ (~Has(b, "comment") /\ req.target \in IdsOf(before.users)) =>
                  new.comment = old.comment
            /\ res.body.user = [user_id |-> req.target,
                                nickname |-> new.nickname,
                                comment |-> new.comment]

\* an update carrying only nickname "" was accepted: the nickname went back
\* from another value to the user_id and the stored comment stayed
C8_Witness ==
    /\ req.op = "patch"
    /\ res.status = 200
    /\ DOMAIN req.body = {"nickname"}
    /\ req.body["nickname"] = <<>>
    /\ req.target \in IdsOf(before.users)
    /\ RecordOf(before.users, req.target).nickname = Nick30
    /\ RecordOf(before.users, req.target).comment = Comment100
    /\ RecordOf(users, req.target).comment = Comment100
    /\ res.body.user.nickname = req.target

\* The cause signup's rules give for body b against store us ("" : none fails),
\* each rule stated on its own: fields missing, lengths outside 6..20 and
\* 8..20, a character outside the allowed class, the id already in the store.
ExpectedCause(us, b) ==
    IF \E k \in {"user_id", "password"} : ~Has(b, k) \/ b[k] = <<>>
    THEN "Required user_id and password"
    ELSE IF Len(b["user_id"]) \notin 6..20 \/ Len(b["password"]) \notin 8..20
    THEN "Input Length is incorrect"
    ELSE IF \/ \E i \in 1..Len(b["user_id"]) :
                  b["user_id"][i] \notin (48..57) \cup (65..90) \cup (97..122)
            \/ \E i \in 1..Len(b["password"]) :
                  b["password"][i] < 33 \/ b["password"][i] > 126
    THEN "Incorrect character pattern"
    ELSE IF b["user_id"] \in IdsOf(us)
    THEN "Already same user_id is used"
    ELSE ""

\* C9: signup reports the cause of the first of its four rules that fails, in
\* the order missing fields, length, character pattern, duplicate id; a refused
\* signup leaves the store as it was; a signup no rule refuses appends the one
\* record {user_id, password, nickname = user_id, comment = ""}.
C9_SignupRuleOrder ==
    req.op = "signup" =>
        LET cause == ExpectedCause(before.users, req.body)
        IN  IF cause # ""
            THEN /\ res.status = 400
                 /\ res.body.cause = cause
                 /\ users = before.users
            ELSE /\ res.status = 200
                 /\ users = Append(before.users,
                                   [user_id |-> req.body["user_id"],
                                    password |-> req.body["password"],
                                    nickname |-> req.body["user_id"],
                                    comment |-> <<>>])

\* a signup that breaks the pattern rule and the duplicate rule at once was
\* refused for the pattern, beside a stored record of the greatest lengths
C9_Witness ==
    /\ req.op = "signup"
    /\ res.status = 400
    /\ res.body.cause = "Incorrect character pattern"
    /\ req.body["user_id"] \in IdsOf(users)
    /\ \E u \in Records(users) : Len(u.user_id) = 20 /\ Len(u.password) = 20

\* C10: an update of a target that is not in the store is answered 404
\* (unless the handler's earlier checks answer 401 or 403 first), and a close
\* with the credentials of a user that is not in the store is answered 401.
C10_MissingUserErrors ==
    /\ (/\ req.op = "patch"
        /\ req.target \notin IdsOf(before.users)
        /\ res.status \notin {401, 403}) =>
            res.status = 404
    /\ (req.op = "close" /\ CallerName \notin IdsOf(before.users)) =>
            res.status = 401

====
